---- MODULE Spec2Model ----
(***************************************************************************)
(* Model of generate_gantt.py: the workday calendar (parse_workdays,       *)
(* add_working_days), the duration parser (duration_to_working_days), the  *)
(* schedule builder (build_rows) and one run of generate_gantt.            *)
(*                                                                         *)
(* Strings are sequences of one-character strings.  A datetime is a        *)
(* record [day, sec]: the proleptic Gregorian ordinal of its date (as      *)
(* datetime.toordinal) and the seconds elapsed since midnight.  A float is *)
(* the exact rational [num, den] (den > 0, lowest terms) it approximates;  *)
(* binary rounding is not modelled.  A call that can raise returns         *)
(* [ok |-> TRUE, val |-> v] or [ok |-> FALSE, err |-> e].  An optional     *)
(* mapping key is a sequence of length 0 (absent) or 1 (present).          *)
(***************************************************************************)
EXTENDS Integers, Sequences, FiniteSets, TLC

VARIABLES pc, data, now, formats, today, cfg, rows, cursor, walk, chart,
          saved, error, call

vars == <<pc, data, now, formats, today, cfg, rows, cursor, walk, chart,
          saved, error, call>>

runVars == <<pc, data, now, formats, today, cfg, rows, cursor, walk, chart,
             saved, error>>

(***************************************************************************)
(* Bounds of the model.                                                    *)
(***************************************************************************)
MaxWorkdaysLen == 5
MaxDurLen == 4
MaxN == 3
MaxB == 2
MaxWalk == 60
MaxGroups == 2
MaxTasks == 2

(***************************************************************************)
(* Module constants of the program.                                        *)
(***************************************************************************)
PALETTE == <<"#4e79a7", "#f28e2b", "#e15759", "#76b7b2",
             "#59a14f", "#edc948", "#b07aa1", "#ff9da7">>

WORKDAYS_DEFAULT == <<"M", ",", "T", ",", "W", ",", "T", "h", ",", "F">>

HOURS_PER_DAY == 8

DAY_MAP == (<<"m">> :> 0) @@ (<<"t">> :> 1) @@ (<<"w">> :> 2) @@
           (<<"t", "h">> :> 3) @@ (<<"f">> :> 4) @@ (<<"s", "a">> :> 5) @@
           (<<"s", "u">> :> 6)

(***************************************************************************)
(* Results of calls that can raise.                                        *)
(***************************************************************************)
Ok(v) == [ok |-> TRUE, val |-> v]

Raise(e) == [ok |-> FALSE, err |-> e]

(***************************************************************************)
(* str methods used by the program.                                        *)
(***************************************************************************)
UpperLetters == <<"A", "B", "C", "D", "E", "F", "G", "H", "I", "J", "K", "L", "M",
                  "N", "O", "P", "Q", "R", "S", "T", "U", "V", "W", "X", "Y", "Z">>

LowerLetters == <<"a", "b", "c", "d", "e", "f", "g", "h", "i", "j", "k", "l", "m",
                  "n", "o", "p", "q", "r", "s", "t", "u", "v", "w", "x", "y", "z">>

LowerChar(c) ==
    IF \E i \in 1..Len(UpperLetters) : UpperLetters[i] = c
    THEN LowerLetters[CHOOSE i \in 1..Len(UpperLetters) : UpperLetters[i] = c]
    ELSE c

\* str.lower()
Lower(s) == [i \in 1..Len(s) |-> LowerChar(s[i])]

\* the characters str.strip() removes and \s matches
IsSpace(c) == c \in {" ", "\t", "\n", "\r"}

\* str.strip()
Strip(s) ==
    IF \A i \in 1..Len(s) : IsSpace(s[i])
    THEN <<>>
    ELSE LET lo == CHOOSE i \in 1..Len(s) :
                       ~IsSpace(s[i]) /\ \A j \in 1..(i - 1) : IsSpace(s[j])
             hi == CHOOSE i \in 1..Len(s) :
                       ~IsSpace(s[i]) /\ \A j \in (i + 1)..Len(s) : IsSpace(s[j])
         IN  SubSeq(s, lo, hi)

\* str.replace(" ", "")
RemoveSpaces(s) == SelectSeq(s, LAMBDA c : c # " ")

\* str.split(","): always at least one part; an empty string gives <<"">>
RECURSIVE SplitComma(_)
SplitComma(s) ==
    IF \A i \in 1..Len(s) : s[i] # ","
    THEN <<s>>
    ELSE LET k == CHOOSE i \in 1..Len(s) :
                      s[i] = "," /\ \A j \in 1..(i - 1) : s[j] # ","
         IN  <<SubSeq(s, 1, k - 1)>> \o SplitComma(SubSeq(s, k + 1, Len(s)))

(***************************************************************************)
(* parse_workdays.                                                         *)
(***************************************************************************)
\* variant: the tokens are looked up without lower()
parse_workdays_cased(s) ==
    LET parts == SplitComma(RemoveSpaces(s))
    IN  IF \E i \in 1..Len(parts) : parts[i] \notin DOMAIN DAY_MAP
        THEN Raise("ValueError")
        ELSE Ok({DAY_MAP[parts[i]] : i \in 1..Len(parts)})

\* variant: an unknown token is skipped instead of raising
parse_workdays_skip(s) ==
    LET parts == SplitComma(RemoveSpaces(s))
        keys  == [i \in 1..Len(parts) |-> Lower(parts[i])]
    IN  Ok({DAY_MAP[keys[i]] :
               i \in {j \in 1..Len(keys) : keys[j] \in DOMAIN DAY_MAP}})

parse_workdays(s) ==
    LET parts == SplitComma(RemoveSpaces(s))
        keys  == [i \in 1..Len(parts) |-> Lower(parts[i])]
    IN  IF \E i \in 1..Len(keys) : keys[i] \notin DOMAIN DAY_MAP
        THEN Raise("ValueError")
        ELSE Ok({DAY_MAP[keys[i]] : i \in 1..Len(keys)})

(***************************************************************************)
(* Floats as rationals.                                                    *)
(***************************************************************************)
RECURSIVE GCD(_, _)
GCD(a, b) == IF b = 0 THEN a ELSE GCD(b, a % b)

\* the fraction n / d (d > 0) in lowest terms
Rat(n, d) ==
    LET g == GCD(IF n < 0 THEN -n ELSE n, d)
    IN  [num |-> n \div g, den |-> d \div g]

RatMul(a, b) == Rat(a.num * b.num, a.den * b.den)

RatDiv(a, b) == Rat(a.num * b.den, a.den * b.num)

\* a == b: the fractions are equal once both are in lowest terms
RatEq(a, b) == Rat(a.num, a.den) = Rat(b.num, b.den)

\* variant: int(n) + 1, which overshoots a whole n
Ceil_truncate_plus_one(q) == (q.num \div q.den) + 1

\* math.ceil
Ceil(q) == -((-q.num) \div q.den)

(***************************************************************************)
(* datetime.                                                               *)
(***************************************************************************)
\* max(a, b)
Max(a, b) == IF a >= b THEN a ELSE b

\* datetime.weekday(): 0 = Monday ... 6 = Sunday
Weekday(dt) == (dt.day + 6) % 7

\* dt + timedelta(days = n)
PlusDays(dt, n) == [dt EXCEPT !.day = @ + n]

\* dt1 < dt2
DtLess(a, b) == a.day < b.day \/ (a.day = b.day /\ a.sec < b.sec)

IsLeap(y) == (y % 4 = 0) /\ ((y % 100 # 0) \/ (y % 400 = 0))

DaysInMonth(y, m) ==
    IF m = 2 THEN (IF IsLeap(y) THEN 29 ELSE 28)
    ELSE IF m \in {4, 6, 9, 11} THEN 30 ELSE 31

RECURSIVE DaysBeforeMonth(_, _)
DaysBeforeMonth(y, m) ==
    IF m <= 1 THEN 0 ELSE DaysBeforeMonth(y, m - 1) + DaysInMonth(y, m - 1)

Ordinal(y, m, d) ==
    LET p == y - 1
    IN  p * 365 + (p \div 4) - (p \div 100) + (p \div 400) + DaysBeforeMonth(y, m) + d

\* parse_date: datetime.strptime(s, "%Y-%m-%d") of the text y-m-d
parse_date(s) ==
    IF s.m \in 1..12 /\ s.y \in 1..9999 /\ s.d \in 1..DaysInMonth(s.y, s.m)
    THEN Ok([day |-> Ordinal(s.y, s.m, s.d), sec |-> 0])
    ELSE Raise("ValueError")

(***************************************************************************)
(* duration_to_working_days.                                               *)
(***************************************************************************)
Digits == <<"0", "1", "2", "3", "4", "5", "6", "7", "8", "9">>

IsDigit(c) == \E i \in 1..Len(Digits) : Digits[i] = c

DigitVal(c) == (CHOOSE i \in 1..Len(Digits) : Digits[i] = c) - 1

AllDigits(s, lo, hi) == lo <= hi /\ \A i \in lo..hi : IsDigit(s[i])

\* \d+(?:\.\d+)? matches all of u
IsNumber(u) ==
    \/ AllDigits(u, 1, Len(u))
    \/ \E a \in 1..Len(u) :
           /\ AllDigits(u, 1, a - 1)
           /\ u[a] = "."
           /\ AllDigits(u, a + 1, Len(u))

RECURSIVE IntVal(_)
IntVal(u) ==
    IF u = <<>> THEN 0
    ELSE 10 * IntVal(SubSeq(u, 1, Len(u) - 1)) + DigitVal(u[Len(u)])

RECURSIVE Pow10(_)
Pow10(k) == IF k = 0 THEN 1 ELSE 10 * Pow10(k - 1)

\* float(u) for u matching \d+(?:\.\d+)?
FloatOf(u) ==
    LET ds == SelectSeq(u, IsDigit)
        fr == IF \E a \in 1..Len(u) : u[a] = "."
              THEN Len(u) - (CHOOSE a \in 1..Len(u) : u[a] = ".")
              ELSE 0
    IN  Rat(IntVal(ds), Pow10(fr))

\* re.fullmatch(r"(\d+(?:\.\d+)?)\s*([dwhm])", t): the end of group 1, or 0
MatchEnd(t) ==
    IF \E b \in 1..(Len(t) - 1) :
           /\ IsNumber(SubSeq(t, 1, b))
           /\ \A i \in (b + 1)..(Len(t) - 1) : IsSpace(t[i])
           /\ t[Len(t)] \in {"d", "w", "h", "m"}
    THEN CHOOSE b \in 1..(Len(t) - 1) :
           /\ IsNumber(SubSeq(t, 1, b))
           /\ \A i \in (b + 1)..(Len(t) - 1) : IsSpace(t[i])
    ELSE 0

\* variant: a month is a fixed 21 working days
duration_to_working_days_fixed_month(s, days_per_week, days_per_month) ==
    LET t == Lower(Strip(s))
        b == MatchEnd(t)
    IN  IF b = 0
        THEN Raise("ValueError")
        ELSE LET value == FloatOf(SubSeq(t, 1, b))
                 unit  == t[Len(t)]
             IN  CASE unit = "d" -> Ok(value)
                   [] unit = "w" -> Ok(RatMul(value, days_per_week))
                   [] unit = "h" -> Ok(RatDiv(value, Rat(HOURS_PER_DAY, 1)))
                   [] unit = "m" -> Ok(RatMul(value, Rat(21, 1)))

duration_to_working_days(s, days_per_week, days_per_month) ==
    LET t == Lower(Strip(s))
        b == MatchEnd(t)
    IN  IF b = 0
        THEN Raise("ValueError")
        ELSE LET value == FloatOf(SubSeq(t, 1, b))
                 unit  == t[Len(t)]
             IN  CASE unit = "d" -> Ok(value)
                   [] unit = "w" -> Ok(RatMul(value, days_per_week))
                   [] unit = "h" -> Ok(RatDiv(value, Rat(HOURS_PER_DAY, 1)))
                   [] unit = "m" -> Ok(RatMul(value, days_per_month))

(***************************************************************************)
(* The workday configuration generate_gantt derives from a workday set.    *)
(***************************************************************************)
days_per_week_of(workday_set) == Rat(Cardinality(workday_set), 1)

\* days_per_week / 7.0 * 30.44
days_per_month_of(days_per_week) ==
    RatMul(RatDiv(days_per_week, Rat(7, 1)), Rat(3044, 100))

(***************************************************************************)
(* add_working_days, one loop iteration at a time.  A walk record holds    *)
(* the locals of one call; steps counts the iterations taken.              *)
(***************************************************************************)
\* variant: at least one working day is always walked
add_working_days_enter_at_least_one(start, n) ==
    LET k == Max(Ceil(n), 1)
    IN  [n |-> k, start |-> start, current |-> start, added |-> 0, steps |-> 0,
         early |-> (k <= 0)]

\* n = math.ceil(n); if n <= 0: return start; current, added = start, 0
add_working_days_enter(start, n) ==
    LET k == Ceil(n)
    IN  [n |-> k, start |-> start, current |-> start, added |-> 0, steps |-> 0,
         early |-> (k <= 0)]

\* while added < n
add_working_days_looping(w) == ~w.early /\ w.added < w.n

\* variant: the weekday is tested before the day is advanced
add_working_days_step_test_first(w, workday_set) ==
    LET c == PlusDays(w.current, 1)
    IN  [w EXCEPT !.current = c,
                  !.added = IF Weekday(w.current) \in workday_set THEN @ + 1 ELSE @,
                  !.steps = @ + 1]

\* current += timedelta(days=1); if current.weekday() in workday_set: added += 1
add_working_days_step(w, workday_set) ==
    LET c == PlusDays(w.current, 1)
    IN  [w EXCEPT !.current = c,
                  !.added = IF Weekday(c) \in workday_set THEN @ + 1 ELSE @,
                  !.steps = @ + 1]

\* return start / return current
add_working_days_result(w) == IF w.early THEN w.start ELSE w.current

NoWalk == add_working_days_enter([day |-> 0, sec |-> 0], Rat(0, 1))

(***************************************************************************)
(* Inputs of the direct calls.                                             *)
(***************************************************************************)
\* the strings of length n over an alphabet
Strings(alphabet, n) == [1..n -> alphabet]

WorkdayChars == {"M", "t", "h", "S", "a", "u", "F", ",", " "}

DurationChars == {"0", "2", "3", "4", ".", "d", "w", "h", "m", "W", " "}

FirstDay == Ordinal(2024, 3, 4)

StartPool == {[day |-> FirstDay + i, sec |-> 0] : i \in 0..6}
                 \cup {[day |-> FirstDay + 4, sec |-> 34200]}

WeekPool == {{0, 1, 2, 3, 4}, 0..6, {5, 6}}

NPool == {Rat(k, d) : k \in (-1)..MaxN, d \in {1, 2}}

NoCall == [fn |-> "none", done |-> TRUE]

(***************************************************************************)
(* The state before a run starts, and of the run while calls are made      *)
(* directly.                                                               *)
(***************************************************************************)
NoProject == [name |-> <<>>, start |-> <<>>, workdays |-> <<>>]

NoConfig == [workday_set |-> {}, days_per_week |-> Rat(0, 1),
             days_per_month |-> Rat(0, 1)]

NoCursor == [gi |-> 0, ti |-> 0]

NoChart == [bars |-> <<>>, xlim |-> <<>>]

NoRun ==
    /\ pc = "idle"
    /\ data = [project |-> NoProject, groups |-> <<>>]
    /\ now = [day |-> FirstDay, sec |-> 0]
    /\ formats = <<>>
    /\ today = [day |-> FirstDay, sec |-> 0]
    /\ cfg = NoConfig
    /\ rows = <<>>
    /\ cursor = NoCursor
    /\ walk = NoWalk
    /\ chart = NoChart
    /\ saved = <<>>
    /\ error = <<>>

(***************************************************************************)
(* Direct calls of the three functions.                                    *)
(***************************************************************************)
WorkdaysInit ==
    /\ NoRun
    /\ \E n \in 0..MaxWorkdaysLen : \E s \in Strings(WorkdayChars, n) :
           call = [fn |-> "parse_workdays", s |-> s, done |-> FALSE]

DurationInit ==
    /\ NoRun
    /\ \E n \in 0..MaxDurLen : \E s \in Strings(DurationChars, n) :
           \E ws \in WeekPool :
               call = [fn |-> "duration_to_working_days", s |-> s,
                       workday_set |-> ws, done |-> FALSE]

\* add_working_days(start, n), then add_working_days(that, b), then
\* add_working_days(start, n + b): stage says which call is running
WalkInit ==
    /\ NoRun
    /\ \E st \in StartPool, n \in NPool, b \in 0..MaxB, ws \in SUBSET (0..6) :
           call = [fn |-> "add_working_days", start |-> st, n |-> n, b |-> b,
                   workday_set |-> ws, stage |-> 1,
                   w |-> add_working_days_enter(st, n), r |-> <<>>,
                   done |-> FALSE]

CallParseWorkdays ==
    /\ call.fn = "parse_workdays" /\ ~call.done
    /\ call' = [fn |-> call.fn, s |-> call.s, done |-> TRUE,
                res |-> parse_workdays(call.s)]
    /\ UNCHANGED runVars

CallDuration ==
    /\ call.fn = "duration_to_working_days" /\ ~call.done
    /\ LET dpw == days_per_week_of(call.workday_set)
           dpm == days_per_month_of(dpw)
       IN  call' = [fn |-> call.fn, s |-> call.s,
                    workday_set |-> call.workday_set, done |-> TRUE,
                    res |-> duration_to_working_days(call.s, dpw, dpm)]
    /\ UNCHANGED runVars

\* one iteration of the loop of the running add_working_days call
CallWalkStep ==
    /\ call.fn = "add_working_days" /\ ~call.done
    /\ add_working_days_looping(call.w)
    /\ call.w.steps < MaxWalk
    /\ call' = [call EXCEPT !.w = add_working_days_step(@, call.workday_set)]
    /\ UNCHANGED runVars

\* the running add_working_days call returns; the next one is entered
CallWalkReturn ==
    /\ call.fn = "add_working_days" /\ ~call.done
    /\ ~add_working_days_looping(call.w)
    /\ LET res == add_working_days_result(call.w)
           r2  == Append(call.r, [val |-> res, steps |-> call.w.steps])
       IN  call' =
             CASE call.stage = 1 ->
                    [call EXCEPT !.r = r2, !.stage = 2,
                        !.w = add_working_days_enter(res, Rat(call.b, 1))]
               [] call.stage = 2 ->
                    [call EXCEPT !.r = r2, !.stage = 3,
                        !.w = add_working_days_enter(call.start,
                                  Rat(call.n.num + call.b * call.n.den, call.n.den))]
               [] OTHER ->
                    [call EXCEPT !.r = r2, !.stage = 4, !.done = TRUE]
    /\ UNCHANGED runVars

WalkNext == CallWalkStep \/ CallWalkReturn

\* parse_workdays called on every short string
SpecWorkdays == WorkdaysInit /\ [][CallParseWorkdays]_vars

\* duration_to_working_days called on every short string
SpecDuration == DurationInit /\ [][CallDuration]_vars

\* add_working_days called three times in a row
SpecWalk == WalkInit /\ [][WalkNext]_vars

(***************************************************************************)
(* build_rows.                                                             *)
(***************************************************************************)
\* PALETTE[gi % len(PALETTE)] for the gi-th group, gi counted from 1 here
group_color(gi) == PALETTE[((gi - 1) % Len(PALETTE)) + 1]

\* variant: rows.insert(0, row)
rows_insert_first(rs, row) == <<row>> \o rs

\* rows.append(row)
rows_append(rs, row) == Append(rs, row)

group_row(group, gi) ==
    [type |-> "group", label |-> group.name, color |-> group_color(gi)]

task_row(group, gi, task, start, due) ==
    [type |-> "task", id |-> task.id, label |-> task.name,
     assignee |-> IF task.assignee = <<>> THEN "" ELSE task.assignee[1],
     start |-> start, due |-> due, color |-> group_color(gi),
     group |-> group.name]

\* variant: "duration" is looked at before "due"
resolve_due_duration_first(task, days_per_week, days_per_month) ==
    IF task.duration # <<>>
    THEN LET wd == duration_to_working_days(task.duration[1], days_per_week,
                                            days_per_month)
         IN  IF wd.ok THEN [kind |-> "walk", wd |-> wd.val]
                      ELSE [kind |-> "raise", at |-> "duration_to_working_days"]
    ELSE IF task.due # <<>>
    THEN LET d == parse_date(task.due[1])
         IN  IF d.ok THEN [kind |-> "due", due |-> d.val]
                     ELSE [kind |-> "raise", at |-> "parse_date"]
    ELSE [kind |-> "raise", at |-> "build_rows"]

\* variant: a task with neither key is due on its start date
resolve_due_default_start(task, days_per_week, days_per_month) ==
    IF task.due # <<>>
    THEN LET d == parse_date(task.due[1])
         IN  IF d.ok THEN [kind |-> "due", due |-> d.val]
                     ELSE [kind |-> "raise", at |-> "parse_date"]
    ELSE IF task.duration # <<>>
    THEN LET wd == duration_to_working_days(task.duration[1], days_per_week,
                                            days_per_month)
         IN  IF wd.ok THEN [kind |-> "walk", wd |-> wd.val]
                      ELSE [kind |-> "raise", at |-> "duration_to_working_days"]
    ELSE [kind |-> "due", due |-> parse_date(task.start).val]

\* if "due" in task ... elif "duration" in task ... else raise
resolve_due(task, days_per_week, days_per_month) ==
    IF task.due # <<>>
    THEN LET d == parse_date(task.due[1])
         IN  IF d.ok THEN [kind |-> "due", due |-> d.val]
                     ELSE [kind |-> "raise", at |-> "parse_date"]
    ELSE IF task.duration # <<>>
    THEN LET wd == duration_to_working_days(task.duration[1], days_per_week,
                                            days_per_month)
         IN  IF wd.ok THEN [kind |-> "walk", wd |-> wd.val]
                      ELSE [kind |-> "raise", at |-> "duration_to_working_days"]
    ELSE [kind |-> "raise", at |-> "build_rows"]

\* the loop position after the row of task ti of group gi (ti = 0: its
\* header) has been appended: the next task, the next group, or the end
next_cursor(groups, c) ==
    IF c.ti < Len(groups[c.gi].tasks)
    THEN [gi |-> c.gi, ti |-> c.ti + 1]
    ELSE [gi |-> c.gi + 1, ti |-> 0]

\* where the run goes once the loop is at c
pc_at(groups, c) == IF c.gi > Len(groups) THEN "render" ELSE "build"

(***************************************************************************)
(* The chart drawn from the rows.                                          *)
(***************************************************************************)
\* variant: the time of day is kept
Midnight_keep(dt) == dt

\* today = datetime.now().replace(hour=0, minute=0, second=0, microsecond=0)
Midnight(dt) == [dt EXCEPT !.sec = 0]

\* past = due < today
is_past(due, day0) == DtLess(due, day0)

draw_row(y, row, day0) ==
    IF row.type = "group"
    THEN [kind |-> "band", y |-> y, color |-> row.color, alpha |-> 12]
    ELSE LET past == is_past(row.due, day0)
         IN  [kind |-> "bar", y |-> y, left |-> row.start.day,
              width |-> Max(row.due.day - row.start.day, 1),
              color |-> row.color, alpha |-> IF past THEN 40 ELSE 85,
              hatched |-> past, end_date |-> row.due.day,
              assignee |-> row.assignee]

TaskIndexes(rs) == {i \in 1..Len(rs) : rs[i].type = "task"}

\* x_min, x_max of the time axis; min() and max() raise on no task rows
axis_limits(project, rs) ==
    LET ts == TaskIndexes(rs)
        lo == IF project.start # <<>>
              THEN parse_date(project.start[1])
              ELSE IF ts = {} THEN Raise("ValueError")
              ELSE Ok([day |-> (CHOOSE d \in {rs[i].start.day : i \in ts} :
                                   \A i \in ts : d <= rs[i].start.day) - 5,
                       sec |-> 0])
    IN  IF ~lo.ok THEN lo
        ELSE IF ts = {} THEN Raise("ValueError")
        ELSE Ok(<<lo.val.day,
                  (CHOOSE d \in {rs[i].due.day : i \in ts} :
                       \A i \in ts : d >= rs[i].due.day) + 28>>)

(***************************************************************************)
(* Inputs of a run: the task file, the clock and the requested formats.    *)
(***************************************************************************)
Date(y, m, d) == [y |-> y, m |-> m, d |-> d]

Task(id, start, due, duration, assignee) ==
    [id |-> id, name |-> id, start |-> start, due |-> due,
     duration |-> duration, assignee |-> assignee]

TaskPool ==
    { Task("spec", Date(2024, 3, 1), <<Date(2024, 3, 5)>>, <<>>, <<"ann">>),
      Task("build", Date(2024, 3, 7), <<>>, <<<<"1", ".", "5", "d">>>>, <<>>),
      Task("review", Date(2024, 3, 4), <<Date(2024, 3, 8)>>, <<<<"s", "o", "o", "n">>>>, <<>>),
      Task("ship", Date(2024, 3, 4), <<Date(2024, 3, 6)>>, <<<<"1", "W">>>>, <<>>),
      Task("idea", Date(2024, 3, 4), <<>>, <<>>, <<>>),
      Task("typo", Date(2024, 3, 4), <<>>, <<<<"2", "x">>>>, <<"bo">>) }

GroupNames == <<"Design", "Build", "Test", "Ship">>

\* the sequences of at most n tasks of the pool
RECURSIVE TaskSeqs(_)
TaskSeqs(n) ==
    IF n = 0 THEN {<<>>}
    ELSE LET shorter == TaskSeqs(n - 1)
         IN  shorter \cup {Append(ts, t) : ts \in {u \in shorter : Len(u) = n - 1},
                                          t \in TaskPool}

TotalTasks(gs) ==
    LET RECURSIVE Sum(_)
        Sum(i) == IF i = 0 THEN 0 ELSE Sum(i - 1) + Len(gs[i].tasks)
    IN  Sum(Len(gs))

\* the sequences of n groups that hold at most k tasks between them
RECURSIVE GroupSeqs(_, _)
GroupSeqs(n, k) ==
    IF n = 0 THEN {<<>>}
    ELSE UNION {{Append(gs, [name |-> GroupNames[((n - 1) % Len(GroupNames)) + 1],
                             tasks |-> ts]) :
                    gs \in GroupSeqs(n - 1, k - Len(ts))} :
                ts \in TaskSeqs(k)}

\* up to maxg groups holding up to maxt tasks between them
GroupsPool(maxg, maxt) == UNION {GroupSeqs(n, maxt) : n \in 0..maxg}

ProjectPool ==
    { [name |-> "Apollo", start |-> <<>>, workdays |-> <<>>],
      [name |-> "Apollo", start |-> <<Date(2024, 2, 26)>>,
       workdays |-> <<<<"T", " ", "h", ",", "F", ",", " ", "s", "a">>>>],
      [name |-> "Apollo", start |-> <<>>, workdays |-> <<<<" ">>>>],
      [name |-> "Apollo", start |-> <<>>, workdays |-> <<<<"M", ",", "F", "r">>>>] }

NowPool == {[day |-> Ordinal(2024, 3, 8), sec |-> 0],
            [day |-> Ordinal(2024, 3, 8), sec |-> 34200]}

FormatsPool == {<<"png">>, <<"pdf">>, <<"png", "pdf">>}

(***************************************************************************)
(* One run of generate_gantt.                                              *)
(***************************************************************************)
Init ==
    /\ pc = "start"
    /\ data \in [project : ProjectPool, groups : GroupsPool(MaxGroups, MaxTasks)]
    /\ now \in NowPool
    /\ formats \in FormatsPool
    /\ today = now
    /\ cfg = NoConfig
    /\ rows = <<>>
    /\ cursor = NoCursor
    /\ walk = NoWalk
    /\ chart = NoChart
    /\ saved = <<>>
    /\ error = <<>>
    /\ call = NoCall

Abort(at) ==
    /\ pc' = "aborted"
    /\ error' = <<[type |-> "ValueError", at |-> at]>>

\* today and the workday configuration; build_rows is entered
Configure ==
    /\ pc = "start"
    /\ today' = Midnight(now)
    /\ LET workday_str == IF data.project.workdays = <<>>
                          THEN WORKDAYS_DEFAULT
                          ELSE data.project.workdays[1]
           ws == parse_workdays(workday_str)
       IN  IF ws.ok
           THEN /\ cfg' = [workday_set |-> ws.val,
                           days_per_week |-> days_per_week_of(ws.val),
                           days_per_month |->
                               days_per_month_of(days_per_week_of(ws.val))]
                /\ cursor' = [gi |-> 1, ti |-> 0]
                /\ pc' = pc_at(data.groups, [gi |-> 1, ti |-> 0])
                /\ error' = error
           ELSE /\ Abort("parse_workdays")
                /\ UNCHANGED <<cfg, cursor>>
    /\ UNCHANGED <<data, now, formats, rows, walk, chart, saved, call>>

\* the header row of the next group
BuildGroup ==
    /\ pc = "build" /\ cursor.ti = 0
    /\ rows' = rows_append(rows, group_row(data.groups[cursor.gi], cursor.gi))
    /\ cursor' = next_cursor(data.groups, cursor)
    /\ pc' = pc_at(data.groups, cursor')
    /\ UNCHANGED <<data, now, formats, today, cfg, walk, chart, saved, error, call>>

\* the next task, up to its row or to the call of add_working_days
BuildTask ==
    /\ pc = "build" /\ cursor.ti > 0
    /\ LET group == data.groups[cursor.gi]
           task  == group.tasks[cursor.ti]
           start == parse_date(task.start)
           r     == resolve_due(task, cfg.days_per_week, cfg.days_per_month)
       IN  IF ~start.ok
           THEN Abort("parse_date") /\ UNCHANGED <<rows, cursor, walk>>
           ELSE CASE r.kind = "due" ->
                       /\ rows' = rows_append(rows,
                                     task_row(group, cursor.gi, task, start.val, r.due))
                       /\ cursor' = next_cursor(data.groups, cursor)
                       /\ pc' = pc_at(data.groups, cursor')
                       /\ UNCHANGED <<walk, error>>
                  [] r.kind = "walk" ->
                       /\ walk' = add_working_days_enter(start.val, r.wd)
                       /\ pc' = "walk"
                       /\ UNCHANGED <<rows, cursor, error>>
                  [] r.kind = "raise" ->
                       Abort(r.at) /\ UNCHANGED <<rows, cursor, walk>>
    /\ UNCHANGED <<data, now, formats, today, cfg, chart, saved, call>>

\* one iteration of the loop of add_working_days
WalkDay ==
    /\ pc = "walk"
    /\ add_working_days_looping(walk)
    /\ walk.steps < MaxWalk
    /\ walk' = add_working_days_step(walk, cfg.workday_set)
    /\ UNCHANGED <<pc, data, now, formats, today, cfg, rows, cursor, chart,
                   saved, error, call>>

\* add_working_days returns the due date; the task's row is appended
WalkReturn ==
    /\ pc = "walk"
    /\ ~add_working_days_looping(walk)
    /\ LET group == data.groups[cursor.gi]
           task  == group.tasks[cursor.ti]
       IN  rows' = rows_append(rows,
                      task_row(group, cursor.gi, task, walk.start,
                               add_working_days_result(walk)))
    /\ cursor' = next_cursor(data.groups, cursor)
    /\ pc' = pc_at(data.groups, cursor')
    /\ UNCHANGED <<data, now, formats, today, cfg, walk, chart, saved, error, call>>

\* the rows are drawn and the axis limits set
Render ==
    /\ pc = "render"
    /\ LET lim == axis_limits(data.project, rows)
       IN  IF lim.ok
           THEN /\ chart' = [bars |-> [i \in 1..Len(rows) |->
                                          draw_row(i - 1, rows[i], today)],
                             xlim |-> lim.val]
                /\ pc' = "save"
                /\ error' = error
           ELSE /\ chart' = [bars |-> [i \in 1..Len(rows) |->
                                          draw_row(i - 1, rows[i], today)],
                             xlim |-> <<>>]
                /\ Abort("axis_limits")
    /\ UNCHANGED <<data, now, formats, today, cfg, rows, cursor, walk, saved, call>>

\* plt.savefig for the next requested format
Save ==
    /\ pc = "save"
    /\ Len(saved) < Len(formats)
    /\ saved' = Append(saved, formats[Len(saved) + 1])
    /\ UNCHANGED <<pc, data, now, formats, today, cfg, rows, cursor, walk, chart,
                   error, call>>

\* plt.close(): the run is over
Finish ==
    /\ pc = "save"
    /\ Len(saved) = Len(formats)
    /\ pc' = "done"
    /\ UNCHANGED <<data, now, formats, today, cfg, rows, cursor, walk, chart,
                   saved, error, call>>

Next ==
    \/ Configure
    \/ BuildGroup
    \/ BuildTask
    \/ WalkDay
    \/ WalkReturn
    \/ Render
    \/ Save
    \/ Finish

Spec == Init /\ [][Next]_vars

(***************************************************************************)
(* Vocabulary of the properties.                                           *)
(***************************************************************************)
WalkCall == call.fn = "add_working_days"

\* the k-th call of the running sequence of add_working_days calls returned
Returned(k) == WalkCall /\ Len(call.r) >= k

\* the least integer not below the rational q
RoundedUp(q) ==
    CHOOSE k \in (-(MaxN + MaxB + 2))..(MaxN + MaxB + 2) :
        k * q.den >= q.num /\ (k - 1) * q.den < q.num

\* the workdays of the set ws among the calendar days lo+1 .. hi
WorkdaysBetween(lo, hi, ws) == {d \in (lo + 1)..hi : ((d + 6) % 7) \in ws}

MondayToFriday == {0, 1, 2, 3, 4}

\* 2024-03-04 is a Monday, 2024-03-08 the Friday of that week
Monday == Ordinal(2024, 3, 4)

Friday == Ordinal(2024, 3, 8)

(***************************************************************************)
(* C1: for a non-empty workday set and n > 0, add_working_days(start, n)   *)
(* returns the k-th day after start whose weekday is in the set, with      *)
(* k = ceil(n): the result's weekday is in the set, exactly k workdays lie *)
(* in (start, result], and the time of day is kept.  With Monday-Friday, a *)
(* Monday advanced by 1 gives the Tuesday and a Friday advanced by 1 the   *)
(* Monday three days later.                                                *)
(***************************************************************************)
C1_AdvanceIsKthWorkday ==
    (Returned(1) /\ call.workday_set # {} /\ call.n.num > 0) =>
        LET res == call.r[1].val
            k   == RoundedUp(call.n)
        IN  /\ ((res.day + 6) % 7) \in call.workday_set
            /\ res.day > call.start.day
            /\ Cardinality(WorkdaysBetween(call.start.day, res.day,
                                           call.workday_set)) = k
            /\ res.sec = call.start.sec
            /\ (call.workday_set = MondayToFriday /\ k = 1) =>
                  /\ (call.start.day = Monday => res.day = Monday + 1)
                  /\ (call.start.day = Friday => res.day = Friday + 3)

C1_Witness ==
    /\ Returned(1)
    /\ call.workday_set = MondayToFriday
    /\ call.start.day = Friday
    /\ call.n = Rat(1, 2)
    /\ call.r[1].val.day = Friday + 3

(***************************************************************************)
(* C5: when ceil(n) <= 0, add_working_days returns start itself, without   *)
(* walking a single day, whatever the workday set (the empty set and a     *)
(* start on a non-working day included).                                   *)
(***************************************************************************)
C5_NonPositiveReturnsStart ==
    /\ (Returned(1) /\ call.n.num <= 0) =>
          /\ call.r[1].val = call.start
          /\ call.r[1].steps = 0
    /\ (Returned(2) /\ call.b = 0) =>
          /\ call.r[2].val = call.r[1].val
          /\ call.r[2].steps = 0

C5_Witness ==
    /\ Returned(1)
    /\ call.n = Rat(-1, 2)
    /\ call.workday_set = MondayToFriday
    /\ call.start.day = Friday + 1
    /\ call.r[1].val.day = Friday + 1

(***************************************************************************)
(* C10: for a non-empty workday set and integers a, b >= 0, advancing by a *)
(* and then by b gives the same date as advancing by a + b; a longer       *)
(* duration never gives an earlier date; the result is never before start, *)
(* and equals start only when the count is 0.                              *)
(***************************************************************************)
C10_AdvanceComposes ==
    (Returned(3) /\ call.workday_set # {} /\ call.n.den = 1 /\ call.n.num >= 0) =>
        /\ call.r[2].val = call.r[3].val
        /\ ~DtLess(call.r[3].val, call.r[1].val)
        /\ ~DtLess(call.r[1].val, call.start)
        /\ (call.r[1].val = call.start <=> call.n.num = 0)
        /\ (call.r[3].val = call.start <=> call.n.num + call.b = 0)

C10_Witness ==
    /\ Returned(3)
    /\ call.workday_set = MondayToFriday
    /\ call.start.day = Monday + 3
    /\ call.n = Rat(1, 1) /\ call.b = 2
    /\ call.r[1].val.day = Friday
    /\ call.r[2].val.day = Friday + 4
    /\ call.r[3].val.day = Friday + 4

(***************************************************************************)
(* C6: duration_to_working_days.                                           *)
(***************************************************************************)
DurationCall == call.fn = "duration_to_working_days" /\ call.done

\* text of a number: digits, with at most one "." that has a digit on
\* both sides
NumberText(u) ==
    /\ Len(u) >= 1
    /\ \A i \in 1..Len(u) : u[i] \in {"0", "1", "2", "3", "4", "5", "6", "7",
                                      "8", "9", "."}
    /\ u[1] # "." /\ u[Len(u)] # "."
    /\ Cardinality({i \in 1..Len(u) : u[i] = "."}) <= 1

\* s is exactly <number><unit> with unit in {d, w, h, m}
ExactDuration(s) ==
    /\ Len(s) >= 2
    /\ s[Len(s)] \in {"d", "w", "h", "m"}
    /\ NumberText(SubSeq(s, 1, Len(s) - 1))

\* the working days of v units, for a week of dpw working days
ExpectedDays(v, unit, dpw) ==
    CASE unit = "d" -> v
      [] unit = "w" -> Rat(v.num * dpw, v.den)
      [] unit = "h" -> Rat(v.num, v.den * 8)
      [] unit = "m" -> Rat(v.num * dpw * 3044, v.den * 700)

\* The claim as written: every string that is not exactly <number><unit>
\* fails, and every string that is gives v, v * days-per-week, v / 8 or
\* v * days-per-month.
C6_Original ==
    DurationCall =>
        IF ExactDuration(call.s)
        THEN /\ call.res.ok
             /\ RatEq(call.res.val,
                      ExpectedDays(FloatOf(SubSeq(call.s, 1, Len(call.s) - 1)),
                                   call.s[Len(call.s)],
                                   Cardinality(call.workday_set)))
        ELSE ~call.res.ok

\* the text with the white space around it removed and its letters lowered
Normalised(s) == Lower(Strip(s))

\* t is <number>, any white space, <unit>
SpacedDuration(t) ==
    /\ Len(t) >= 2
    /\ t[Len(t)] \in {"d", "w", "h", "m"}
    /\ \E b \in 1..(Len(t) - 1) :
           /\ NumberText(SubSeq(t, 1, b))
           /\ \A i \in (b + 1)..(Len(t) - 1) : t[i] = " "

NumberPart(t) == SelectSeq(SubSeq(t, 1, Len(t) - 1), LAMBDA c : c # " ")

(***************************************************************************)
(* C6 (amended): a duration is read after removing the white space around  *)
(* it and lowering its letters, and white space may separate the number    *)
(* from the unit.  A text of that form gives v for d, v times the size of  *)
(* the workday set for w, v / 8 for h and v times (size / 7 * 30.44) for   *)
(* m, so "3d" gives 3, "2w" with a 5-day week 10 and "40h" 5; every other  *)
(* string fails with an error.                                             *)
(***************************************************************************)
C6_DurationValue ==
    DurationCall =>
        LET t == Normalised(call.s)
        IN  /\ IF SpacedDuration(t)
               THEN /\ call.res.ok
                    /\ call.res.val.den > 0
                    /\ RatEq(call.res.val,
                             ExpectedDays(FloatOf(NumberPart(t)), t[Len(t)],
                                          Cardinality(call.workday_set)))
               ELSE ~call.res.ok /\ call.res.err = "ValueError"
            /\ call.s = <<"3", "d">> => RatEq(call.res.val, Rat(3, 1))
            /\ (call.s = <<"2", "w">> /\ call.workday_set = MondayToFriday)
                   => RatEq(call.res.val, Rat(10, 1))
            /\ call.s = <<"4", "0", "h">> => RatEq(call.res.val, Rat(5, 1))

C6_Witness ==
    /\ DurationCall
    /\ call.s = <<"2", ".", "4", "m">>
    /\ call.workday_set = MondayToFriday
    /\ call.res.ok
    /\ RatEq(call.res.val, Rat(36528, 700))

\* an upper-case unit after a space is accepted
C6_SpacedWitness ==
    /\ DurationCall
    /\ call.s = <<"4", "0", " ", "W">>
    /\ call.res.ok

(***************************************************************************)
(* C8: parse_workdays.                                                     *)
(***************************************************************************)
ParseCall == call.fn = "parse_workdays" /\ call.done

\* the spellings of each weekday, in every mix of cases
Spellings ==
    [d \in 0..6 |->
        CASE d = 0 -> {<<"M">>, <<"m">>}
          [] d = 1 -> {<<"T">>, <<"t">>}
          [] d = 2 -> {<<"W">>, <<"w">>}
          [] d = 3 -> {<<"T", "h">>, <<"t", "h">>, <<"T", "H">>, <<"t", "H">>}
          [] d = 4 -> {<<"F">>, <<"f">>}
          [] d = 5 -> {<<"S", "a">>, <<"s", "a">>, <<"S", "A">>, <<"s", "A">>}
          [] d = 6 -> {<<"S", "u">>, <<"s", "u">>, <<"S", "U">>, <<"s", "U">>}]

Named(tok) == \E d \in 0..6 : tok \in Spellings[d]

DayNamed(tok) == CHOOSE d \in 0..6 : tok \in Spellings[d]

\* the result the claim gives for the tokens toks
WorkdaysOf(toks, res) ==
    IF \A i \in 1..Len(toks) : Named(toks[i])
    THEN /\ res.ok
         /\ res.val = {DayNamed(toks[i]) : i \in 1..Len(toks)}
         /\ res.val \subseteq 0..6
    ELSE ~res.ok /\ res.err = "ValueError"

\* The claim as written, the tokens being the comma-separated parts of the
\* string, each without the white space around it.
C8_Original ==
    ParseCall =>
        LET parts == SplitComma(call.s)
        IN  WorkdaysOf([i \in 1..Len(parts) |-> Strip(parts[i])], call.res)

(***************************************************************************)
(* C8 (amended): parse_workdays first deletes every space of the string,   *)
(* those inside an abbreviation included, and then reads a comma-separated *)
(* list of M, T, W, Th, F, Sa, Su in any case: it returns exactly the set  *)
(* of the weekdays named, and fails with an error if a token, once its     *)
(* spaces are deleted, is no abbreviation (an empty token included).       *)
(***************************************************************************)
C8_WorkdaysParsed ==
    ParseCall =>
        LET parts == SplitComma(call.s)
        IN  WorkdaysOf([i \in 1..Len(parts) |->
                           SelectSeq(parts[i], LAMBDA c : c # " ")], call.res)

C8_Witness ==
    /\ ParseCall
    /\ call.s = <<"t", "h", ",", "S", "a">>
    /\ call.res.ok
    /\ call.res.val = {3, 5}

\* a space inside an abbreviation is deleted before the lookup
C8_SpaceWitness ==
    /\ ParseCall
    /\ call.s = <<"t", " ", "h">>
    /\ call.res.ok
    /\ call.res.val = {3}

(***************************************************************************)
(* Vocabulary of the properties of a run.                                  *)
(***************************************************************************)
\* the rows the input declares, in declaration order: t = 0 is the header
\* of group g, t > 0 its t-th task
RECURSIVE Declared(_)
Declared(gs) ==
    IF gs = <<>> THEN <<>>
    ELSE LET g == Len(gs)
         IN  Declared(SubSeq(gs, 1, g - 1))
                 \o <<[g |-> g, t |-> 0]>>
                 \o [t \in 1..Len(gs[g].tasks) |-> [g |-> g, t |-> t]]

DeclaredTask(d) == data.groups[d.g].tasks[d.t]

PaletteColour(g) == PALETTE[((g - 1) % 8) + 1]

\* row is the row of the declared entry d
RowOf(row, d) ==
    IF d.t = 0
    THEN /\ row.type = "group"
         /\ row.label = data.groups[d.g].name
         /\ row.color = PaletteColour(d.g)
    ELSE /\ row.type = "task"
         /\ row.id = DeclaredTask(d).id
         /\ row.label = DeclaredTask(d).name
         /\ row.group = data.groups[d.g].name
         /\ row.color = PaletteColour(d.g)

\* the header that most recently precedes row i
HeaderBefore(i) ==
    CHOOSE h \in 1..i : /\ rows[h].type = "group"
                        /\ \A j \in (h + 1)..i : rows[j].type # "group"

Built == pc \in {"render", "save", "done"}

Building == pc \in {"build", "walk"}

\* the task build_rows is working on
CurrentTask == data.groups[cursor.gi].tasks[cursor.ti]

(***************************************************************************)
(* C3: build_rows gives the rows in declaration order: the header of each  *)
(* group followed by its tasks; groups + tasks rows in all, none dropped,  *)
(* duplicated or reordered; a task row carries the name and colour of the  *)
(* header that most recently precedes it.  While the rows are being built  *)
(* they are a prefix of that list.                                         *)
(***************************************************************************)
C3_RowsMirrorDeclaration ==
    LET d == Declared(data.groups)
    IN  /\ Built =>
              /\ Len(rows) = Len(data.groups) + TotalTasks(data.groups)
              /\ Len(rows) = Len(d)
        /\ (Built \/ Building) =>
              /\ Len(rows) <= Len(d)
              /\ \A i \in 1..Len(rows) : RowOf(rows[i], d[i])
              /\ \A i \in 1..Len(rows) :
                     rows[i].type = "task" =>
                         /\ rows[i].group = rows[HeaderBefore(i)].label
                         /\ rows[i].color = rows[HeaderBefore(i)].color

C3_Witness ==
    /\ pc = "done"
    /\ Len(rows) = 4
    /\ rows[1].type = "group" /\ rows[1].label = "Design"
    /\ rows[2].type = "task" /\ rows[2].id = "build"
    /\ rows[3].type = "group" /\ rows[3].label = "Build"
    /\ rows[4].type = "task" /\ rows[4].id = "spec"
    /\ rows[4].color = "#f28e2b"

(***************************************************************************)
(* C4: a task with "due" gets the parsed "due" as its due date whatever    *)
(* its "duration": the duration is not parsed (a malformed one raises      *)
(* nothing) and add_working_days is not called; the duration decides the   *)
(* due date only of a task without "due".                                  *)
(***************************************************************************)
C4_DueWins ==
    LET d == Declared(data.groups)
    IN  /\ (Built \/ Building) =>
              \A i \in 1..Len(rows) :
                  (d[i].t > 0 /\ DeclaredTask(d[i]).due # <<>>) =>
                      LET due == DeclaredTask(d[i]).due[1]
                      IN  rows[i].due = [day |-> Ordinal(due.y, due.m, due.d),
                                         sec |-> 0]
        /\ pc = "walk" => CurrentTask.due = <<>> /\ CurrentTask.duration # <<>>
        /\ (error # <<>> /\ error[1].at \in {"duration_to_working_days", "build_rows"})
              => CurrentTask.due = <<>>

C4_Witness ==
    /\ pc = "done"
    /\ Len(rows) = 3
    /\ rows[2].id = "review" /\ rows[2].due.day = Ordinal(2024, 3, 8)
    /\ rows[3].id = "ship" /\ rows[3].due.day = Ordinal(2024, 3, 6)

(***************************************************************************)
(* C2: a run with a validation failure (an unknown workday token, a        *)
(* malformed duration that is needed, a task with neither "due" nor        *)
(* "duration") aborts and writes no file, wherever the offending task is.  *)
(***************************************************************************)
BadWorkdays(project) ==
    /\ project.workdays # <<>>
    /\ LET parts == SplitComma(project.workdays[1])
       IN  \E i \in 1..Len(parts) :
               ~Named(SelectSeq(parts[i], LAMBDA c : c # " "))

BadTask(task) ==
    /\ task.due = <<>>
    /\ \/ task.duration = <<>>
       \/ ~SpacedDuration(Normalised(task.duration[1]))

HasValidationFailure ==
    \/ BadWorkdays(data.project)
    \/ \E g \in 1..Len(data.groups) :
           \E t \in 1..Len(data.groups[g].tasks) : BadTask(data.groups[g].tasks[t])

C2_FailureWritesNothing ==
    /\ saved # <<>> => ~HasValidationFailure
    /\ pc = "done" => ~HasValidationFailure
    /\ error # <<>> => saved = <<>> /\ pc = "aborted"
    /\ pc = "aborted" => saved = <<>> /\ error # <<>>

C2_Witness ==
    /\ pc = "aborted"
    /\ error[1].at = "duration_to_working_days"
    /\ Len(rows) = 3
    /\ rows[2].type = "task"
    /\ cursor = [gi |-> 2, ti |-> 1]
    /\ saved = <<>>

(***************************************************************************)
(* C7: a task is drawn as past due (opacity 0.40 and a hatch overlay) if   *)
(* and only if its due date is a day before the current day; a task due on *)
(* the current day is not, at whatever time of that day the run is made.   *)
(***************************************************************************)
Drawn == chart.bars # <<>>

C7_PastDueFlag ==
    Drawn =>
        /\ Len(chart.bars) = Len(rows)
        /\ \A i \in 1..Len(rows) :
               rows[i].type = "task" =>
                   /\ chart.bars[i].kind = "bar"
                   /\ chart.bars[i].hatched <=> rows[i].due.day < now.day
                   /\ chart.bars[i].alpha = (IF rows[i].due.day < now.day
                                             THEN 40 ELSE 85)

C7_Witness ==
    /\ pc = "done"
    /\ now.sec > 0
    /\ Len(rows) = 3
    /\ rows[2].due.day = now.day - 3 /\ chart.bars[2].hatched
    /\ rows[3].due.day = now.day /\ ~chart.bars[3].hatched

(***************************************************************************)
(* C9: the loop of add_working_days ends in every run: a workday set that  *)
(* parse_workdays returns is never empty (a blank workdays string raises), *)
(* and a call for k = ceil(n) > 0 working days takes at most 7 * k steps.  *)
(***************************************************************************)
Configured == pc \in {"build", "walk", "render", "save", "done"}

C9_WalkTerminates ==
    /\ Configured => cfg.workday_set # {}
    /\ (pc # "start" /\ data.project.workdays # <<>>
            /\ \A i \in 1..Len(data.project.workdays[1]) :
                   data.project.workdays[1][i] = " ")
          => pc = "aborted" /\ error[1].at = "parse_workdays"
    /\ pc = "walk" =>
          /\ walk.n > 0 => walk.steps <= 7 * walk.n
          /\ walk.steps < MaxWalk
          /\ (walk.n > 0 /\ walk.steps = 7 * walk.n) => walk.added = walk.n

C9_Witness ==
    /\ pc = "walk"
    /\ cfg.workday_set = MondayToFriday
    /\ walk.n = 2
    /\ walk.steps = 4
    /\ walk.added = 2
    /\ walk.current.day = Ordinal(2024, 3, 11)

====
